---------------------------- MODULE Spec2Model ----------------------------
(***************************************************************************)
(* Model of the advanced filter helpers of the asset index                 *)
(* (app/components/assets/assets-index/advanced-filters/helpers.ts):       *)
(* getUIFieldType, useInitialFilters, getDefaultValueForFieldType and       *)
(* getAvailableColumns.                                                    *)
(*                                                                         *)
(* A JavaScript string is a finite sequence of symbols.  The symbols ":"   *)
(* and "," are the two separator characters the code splits on; every      *)
(* other symbol stands for a non-empty run of characters holding neither   *)
(* separator ("between" is the word between, "a" any other such run).      *)
(* A JavaScript value that may be undefined, a string or an array of       *)
(* strings is a record [kind, str, list].                                  *)
(***************************************************************************)
EXTENDS Integers, Sequences, FiniteSets, TLC

VARIABLES
    columns,            \* the column catalog handed to the helpers
    pc,                 \* "idle", or the helper that was called
    searchParams,       \* the (key, value) pairs of the request, in order
    outcome,            \* "none" | "returned" | "TypeError"
    initialFilters,     \* what useInitialFilters returned
    usedColumns,        \* argument of getAvailableColumns
    operation,          \* argument of getAvailableColumns
    availableColumns,   \* what getAvailableColumns returned
    theColumn,          \* argument of getUIFieldType and getDefaultValueForFieldType
    friendlyName,       \* argument of getUIFieldType
    fieldType,          \* what getUIFieldType returned
    customFields,       \* argument of getDefaultValueForFieldType
    now,                \* the clock: the place of the present instant in Instants
    defaultValue,       \* what getDefaultValueForFieldType returned
    calledAt,           \* the instant of that call
    previousValue,      \* what it returned on the call before, on the same arguments
    previousAt          \* the instant of the call before

fieldVars == <<theColumn, friendlyName, fieldType>>
defaultVars == <<customFields, now, defaultValue, calledAt, previousValue, previousAt>>

vars == <<columns, pc, searchParams, outcome, initialFilters,
          usedColumns, operation, availableColumns, fieldVars, defaultVars>>

----------------------------------------------------------------------------
(* Bounds of the model *)

\* most columns in a catalog
MaxCols == 2
\* size of a request's query: each pair costs 1 plus the length of its value
MaxQuery == 5
\* most entries in usedColumns
MaxUsed == 2
\* most options of a custom field
MaxOptions == 2

----------------------------------------------------------------------------
(* Strings and JavaScript values *)

Colon == ":"
Comma == ","
Between == "between"
Symbols == {Between, "a", Colon, Comma}

StringsUpTo(n) == UNION {[1..k -> Symbols] : k \in 0..n}

Undefined == [kind |-> "undefined", str |-> <<>>, list |-> <<>>]
Str(s) == [kind |-> "string", str |-> s, list |-> <<>>]
Arr(l) == [kind |-> "array", str |-> <<>>, list |-> l]

\* positions of the separator sep in the string s
SepPositions(s, sep) == {i \in 1..Len(s) : s[i] = sep}

Min(S) == CHOOSE x \in S : \A y \in S : x <= y

\* String.prototype.split(sep) with a one-character separator and no limit:
\* every occurrence of sep ends a piece, so a string with k separators gives
\* k + 1 pieces (the empty string gives one empty piece).
RECURSIVE split(_, _)
split(s, sep) ==
    IF SepPositions(s, sep) = {}
    THEN <<s>>
    ELSE LET i == Min(SepPositions(s, sep))
         IN  <<SubSeq(s, 1, i - 1)>> \o split(SubSeq(s, i + 1, Len(s)), sep)

\* array destructuring: the i-th element, undefined past the end
Element(arr, i) == IF i <= Len(arr) THEN Str(arr[i]) ELSE Undefined

----------------------------------------------------------------------------
(* Columns *)

NoCfType == "undefined"
BuiltInNames == {"id", "name", "custody", "status", "category", "location",
                 "kit", "description", "valuation", "availableToBook",
                 "createdAt", "tags"}
CustomNames == {"cf_notes"}
\* a name that is neither built-in nor prefixed
OtherNames == {"qrId"}
\* the kinds of custom field; AMOUNT stands for any kind getUIFieldType has no case for
CfTypes == {"TEXT", "MULTILINE_TEXT", "BOOLEAN", "DATE", "OPTION", "AMOUNT"}
CatalogNames == {"valuation", "tags", "cf_notes"}
CatalogCfTypes == {"TEXT", "MULTILINE_TEXT"}

\* name.startsWith("cf_"), over the names of the model
StartsWithCf(name) == name \in CustomNames

\* the column descriptors a catalog is made of: a built-in column carries no
\* cfType, a custom field column always carries one
CatalogColumns ==
    {[name |-> n, visible |-> v, cfType |-> NoCfType] :
        n \in CatalogNames \ CustomNames, v \in BOOLEAN}
    \cup
    {[name |-> n, visible |-> v, cfType |-> t] :
        n \in CatalogNames \cap CustomNames, v \in BOOLEAN, t \in CatalogCfTypes}

\* catalogs: column names are unique within a catalog
Catalogs ==
    {c \in UNION {[1..k -> CatalogColumns] : k \in 0..MaxCols} :
        \A i, j \in 1..Len(c) : c[i].name = c[j].name => i = j}

\* faulty variant: a column that carries a cfType is resolved by it, whatever its name
getUIFieldType_byKind(column) ==
    CASE column.cfType = "TEXT" -> "string"
      [] column.cfType = "MULTILINE_TEXT" -> "text"
      [] column.cfType = "BOOLEAN" -> "boolean"
      [] column.cfType = "DATE" -> "date"
      [] column.cfType = "OPTION" -> "enum"
      [] column.name \in {"custody", "status", "category", "location", "kit"} -> "enum"
      [] column.name = "description" -> "text"
      [] column.name = "valuation" -> "number"
      [] column.name = "availableToBook" -> "boolean"
      [] column.name = "createdAt" -> "date"
      [] column.name = "tags" -> "array"
      [] OTHER -> "string"

\* faulty variant: the case OPTION is missing
getUIFieldType_noOption(column) ==
    CASE column.name \in {"id", "name"} -> "string"
      [] column.name \in {"custody", "status", "category", "location", "kit"} -> "enum"
      [] column.name = "description" -> "text"
      [] column.name = "valuation" -> "number"
      [] column.name = "availableToBook" -> "boolean"
      [] column.name = "createdAt" -> "date"
      [] column.name = "tags" -> "array"
      [] OTHER ->
            IF StartsWithCf(column.name)
            THEN CASE column.cfType = "TEXT" -> "string"
                   [] column.cfType = "MULTILINE_TEXT" -> "text"
                   [] column.cfType = "BOOLEAN" -> "boolean"
                   [] column.cfType = "DATE" -> "date"
                   [] OTHER -> "string"
            ELSE "string"

UIFieldTypes == {"string", "text", "boolean", "date", "number", "enum", "array"}

uiFieldTypeNames ==
    [t \in UIFieldTypes |->
        CASE t = "string" -> "Single-line text"
          [] t = "text" -> "Multi-line text"
          [] t = "boolean" -> "Yes/No"
          [] t = "date" -> "Date"
          [] t = "number" -> "Number"
          [] t = "enum" -> "Option"
          [] t = "array" -> "List"]

getUIFieldType(column) ==
    CASE column.name \in {"id", "name"} -> "string"
      [] column.name \in {"custody", "status", "category", "location", "kit"} -> "enum"
      [] column.name = "description" -> "text"
      [] column.name = "valuation" -> "number"
      [] column.name = "availableToBook" -> "boolean"
      [] column.name = "createdAt" -> "date"
      [] column.name = "tags" -> "array"
      [] OTHER ->
            IF StartsWithCf(column.name)
            THEN CASE column.cfType = "TEXT" -> "string"
                   [] column.cfType = "MULTILINE_TEXT" -> "text"
                   [] column.cfType = "BOOLEAN" -> "boolean"
                   [] column.cfType = "DATE" -> "date"
                   [] column.cfType = "OPTION" -> "enum"
                   [] OTHER -> "string"
            ELSE "string"

\* return friendlyName ? uiFieldTypeNames[fieldType] : fieldType
getUIFieldTypeOrName(column, friendly) ==
    IF friendly THEN uiFieldTypeNames[getUIFieldType(column)] ELSE getUIFieldType(column)

----------------------------------------------------------------------------
(* useInitialFilters *)

\* columns.find((c) => c.name === key): index of the first match, 0 if none
find(cols, key) ==
    IF \E i \in 1..Len(cols) : cols[i].name = key
    THEN Min({i \in 1..Len(cols) : cols[i].name = key})
    ELSE 0

\* const [operator, filterValue] = value.split(":")
operatorOf(value) == Element(split(value, Colon), 1)
filterValueOf(value) == Element(split(value, Colon), 2)

\* filterValue.split(",") is a TypeError when filterValue is undefined
splitThrows(value) ==
    /\ operatorOf(value).str = <<Between>>
    /\ filterValueOf(value).kind = "undefined"

\* faulty variant: the range value is never split
valueOf_scalar(value) == filterValueOf(value)

\* faulty variant: the range value is cut or padded to two components
valueOf_pair(value) ==
    IF operatorOf(value).str = <<Between>>
    THEN LET l == split(filterValueOf(value).str, Comma)
         IN  Arr(<<l[1], IF Len(l) >= 2 THEN l[2] ELSE <<>> >>)
    ELSE filterValueOf(value)

\* value: operator === "between" ? filterValue.split(",") : filterValue
valueOf(value) ==
    IF operatorOf(value).str = <<Between>>
    THEN Arr(split(filterValueOf(value).str, Comma))
    ELSE filterValueOf(value)

\* the descriptor pushed for a pair whose key names the column
filterOf(column, key, value) ==
    [name |-> key,
     operator |-> operatorOf(value).str,
     value |-> valueOf(value),
     type |-> getUIFieldType(column)]

\* faulty variant: the descriptor is put at the front of the list
unshift(list, item) == <<item>> \o list

\* initialFilters.push(...)
push(list, item) == Append(list, item)

\* searchParams.forEach(...) from pair i on, with the list built so far
RECURSIVE forEach(_, _, _, _)
forEach(cols, params, i, acc) ==
    IF i > Len(params)
    THEN [outcome |-> "returned", filters |-> acc]
    ELSE LET key == params[i].key
             value == params[i].value
             c == find(cols, key)
         IN  IF c = 0
             THEN forEach(cols, params, i + 1, acc)
             ELSE IF splitThrows(value)
                  THEN [outcome |-> "TypeError", filters |-> <<>>]
                  ELSE forEach(cols, params, i + 1,
                               push(acc, filterOf(cols[c], key, value)))

useInitialFilters(cols, params) == forEach(cols, params, 1, <<>>)

----------------------------------------------------------------------------
(* getDefaultValueForFieldType *)

\* the clock: successive instants, as the date and the time of day of their
\* ISO timestamp (UTC)
Instants ==
    << [date |-> "2024-05-01", time |-> "09:00:00.000Z"],
       [date |-> "2024-05-01", time |-> "21:00:00.000Z"],
       [date |-> "2024-05-02", time |-> "09:00:00.000Z"] >>

JsTrue == [kind |-> "boolean", str |-> <<"true">>, list |-> <<>>]
Zero == [kind |-> "number", str |-> <<"0">>, list |-> <<>>]

\* new Date().toISOString(): date, the letter T, time
toISOString(instant) == <<instant.date, "T", instant.time>>

\* faulty variant: the whole timestamp, not cut at the T
isoDate_whole(instant) == Str(<<instant.date, "T", instant.time>>)

\* new Date().toISOString().split("T")[0]
isoDate(instant) == Element(split(toISOString(instant), "T"), 1)

\* `cf_${cf.name}`
cfColumnName(name) ==
    CASE name = "notes" -> "cf_notes"
      [] name = "size" -> "cf_size"

NoCustomField == [found |-> FALSE, name |-> "", type |-> "", options |-> [isNull |-> TRUE, list |-> <<>>]]
FoundCustomField(cf) == [found |-> TRUE, name |-> cf.name, type |-> cf.type, options |-> cf.options]

\* customFields?.find((cf) => `cf_${cf.name}` === column.name)
findCustomField(fields, column) ==
    IF fields.isNull THEN NoCustomField
    ELSE IF \E i \in 1..Len(fields.list) : cfColumnName(fields.list[i].name) = column.name
         THEN FoundCustomField(fields.list[
                  Min({i \in 1..Len(fields.list) :
                          cfColumnName(fields.list[i].name) = column.name})])
         ELSE NoCustomField

\* faulty variant: the last option
firstOption_last(customField) ==
    IF ~customField.found \/ customField.options.isNull THEN Undefined
    ELSE IF customField.options.list = <<>> THEN Undefined
    ELSE Element(customField.options.list, Len(customField.options.list))

\* customField?.options?.[0]
firstOption(customField) ==
    IF ~customField.found \/ customField.options.isNull THEN Undefined
    ELSE Element(customField.options.list, 1)

\* v || "" on undefined or a string
orEmpty(v) == IF v.kind = "undefined" \/ v = Str(<<>>) THEN Str(<<>>) ELSE v

\* the default by a kind of custom field
defaultOfKind(kind, customField, instant) ==
    CASE kind = "DATE" -> isoDate(instant)
      [] kind = "BOOLEAN" -> JsTrue
      [] kind = "OPTION" -> orEmpty(firstOption(customField))
      [] kind \in {"TEXT", "MULTILINE_TEXT"} -> Str(<<>>)
      [] OTHER -> Str(<<>>)

\* faulty variant: the kind of the definition found decides, not the column's
customDefault_byDefinition(column, fields, instant) ==
    defaultOfKind(findCustomField(fields, column).type,
                  findCustomField(fields, column), instant)

\* the branch of the custom field columns: switch (column.cfType)
customDefault(column, fields, instant) ==
    defaultOfKind(column.cfType, findCustomField(fields, column), instant)

\* faulty variant: the case number is missing
builtInDefault_noNumber(column, instant) ==
    CASE getUIFieldType(column) = "boolean" -> JsTrue
      [] getUIFieldType(column) = "date" -> isoDate(instant)
      [] OTHER -> Str(<<>>)

\* the branch of the regular fields: switch (getUIFieldType({ column }))
builtInDefault(column, instant) ==
    CASE getUIFieldType(column) = "boolean" -> JsTrue
      [] getUIFieldType(column) = "date" -> isoDate(instant)
      [] getUIFieldType(column) = "number" -> Zero
      [] OTHER -> Str(<<>>)

\* the clock is read inside the function: it is no argument of it
getDefaultValueForFieldType(column, fields) ==
    IF StartsWithCf(column.name)
    THEN customDefault(column, fields, Instants[now])
    ELSE builtInDefault(column, Instants[now])

----------------------------------------------------------------------------
(* getAvailableColumns *)

\* faulty variants: an empty deny-list
noUnsortableColumns == {}
noUnsortableTypes == {}

unsortableColumns == {"tags"}
unsortableTypes == {"MULTILINE_TEXT"}

\* faulty variant: a column is put on the filter deny-list only
valuationUnfilterable == {"valuation"}

unfilterableColumns == {}

\* faulty variant: the used columns are not looked at
notUsed_ignored(used, column) == TRUE

\* !usedColumns.find((f) => f.name === column.name)
notUsed(used, column) == ~ \E i \in 1..Len(used) : used[i].name = column.name

\* first pass: visible and not already used
firstPass(used, column) == column.visible /\ notUsed(used, column)

\* column.cfType || ""
cfTypeOrEmpty(column) == IF column.cfType = NoCfType THEN "" ELSE column.cfType

\* second pass: the operation-specific filter
secondPass(op, column) ==
    IF ~column.visible THEN FALSE
    ELSE IF op = "sort"
         THEN IF column.name \in unsortableColumns THEN FALSE
              ELSE IF StartsWithCf(column.name)
                   THEN cfTypeOrEmpty(column) \notin unsortableTypes
                   ELSE TRUE
         ELSE IF op = "filter"
              THEN IF column.name \in unfilterableColumns THEN FALSE ELSE TRUE
              ELSE TRUE

\* faulty variant: the result is handed back in reverse
getAvailableColumns_reversed(cols, used, op) ==
    LET First(c) == firstPass(used, c)
        Second(c) == secondPass(op, c)
        kept == SelectSeq(SelectSeq(cols, First), Second)
    IN  [i \in 1..Len(kept) |-> kept[Len(kept) + 1 - i]]

getAvailableColumns(cols, used, op) ==
    LET First(c) == firstPass(used, c)
        Second(c) == secondPass(op, c)
    IN  SelectSeq(SelectSeq(cols, First), Second)

----------------------------------------------------------------------------
(* Inputs *)

\* useInitialFilters reads name and cfType of a column, never visible: the
\* catalogs it is run on here hold visible columns only
VisibleCatalogs == {c \in Catalogs : \A i \in 1..Len(c) : c[i].visible}

SearchKeys == {"valuation", "cf_notes"}

Pairs(budget) ==
    IF budget < 1 THEN {}
    ELSE {[key |-> k, value |-> v] : k \in SearchKeys, v \in StringsUpTo(budget - 1)}

RECURSIVE Queries(_)
Queries(budget) ==
    {<<>>} \cup
    UNION {{<<p>> \o q : q \in Queries(budget - 1 - Len(p.value))} : p \in Pairs(budget)}

AllQueries == Queries(MaxQuery)

UsedLists ==
    UNION {[1..k -> {[name |-> n] : n \in CatalogNames}] : k \in 0..MaxUsed}

Operations == {"filter", "sort"}

\* every column descriptor the type Column allows over the names and kinds of
\* the model: any name, with or without a cfType
AnyColumns ==
    [name : BuiltInNames \cup CustomNames \cup OtherNames,
     visible : BOOLEAN,
     cfType : CfTypes \cup {NoCfType}]

NoCustomFields == [isNull |-> TRUE, list |-> <<>>]

\* getDefaultValueForFieldType reads name and cfType of a column, never visible
DefaultColumns == {c \in AnyColumns : c.visible}

OptionValues == {<<"A">>, <<"B">>}
OptionLists ==
    {[isNull |-> TRUE, list |-> <<>>]} \cup
    {[isNull |-> FALSE, list |-> l] :
        l \in UNION {[1..k -> OptionValues] : k \in 0..MaxOptions}}

\* the definitions of the custom field of the column cf_notes, and one of a
\* custom field no column of the model stands for, of which only the name is read
DefinitionTypes == {"OPTION", "BOOLEAN"}
NotesDefinitions ==
    {[name |-> "notes", type |-> t, options |-> o] :
        t \in DefinitionTypes, o \in OptionLists}
SizeDefinition ==
    [name |-> "size", type |-> "OPTION", options |-> [isNull |-> FALSE, list |-> << <<"B">> >>]]

\* the custom field catalogs: null, or a list of definitions of distinct names
CustomFieldCatalogs ==
    {NoCustomFields, [isNull |-> FALSE, list |-> <<>>],
     [isNull |-> FALSE, list |-> <<SizeDefinition>>]}
    \cup {[isNull |-> FALSE, list |-> <<d>>] : d \in NotesDefinitions}
    \cup {[isNull |-> FALSE, list |-> <<d, SizeDefinition>>] : d \in NotesDefinitions}
    \cup {[isNull |-> FALSE, list |-> <<SizeDefinition, d>>] : d \in NotesDefinitions}

NoColumn == [name |-> "", visible |-> FALSE, cfType |-> NoCfType]

----------------------------------------------------------------------------
(* The state machines: a catalog, then one call of a helper on it *)

Idle ==
    /\ pc = "idle"
    /\ searchParams = <<>>
    /\ outcome = "none"
    /\ initialFilters = <<>>
    /\ usedColumns = <<>>
    /\ operation = "filter"
    /\ availableColumns = <<>>
    /\ theColumn = NoColumn
    /\ friendlyName = FALSE
    /\ fieldType = ""
    /\ customFields = NoCustomFields
    /\ now = 1
    /\ defaultValue = Undefined
    /\ calledAt = 1
    /\ previousValue = Undefined
    /\ previousAt = 1

InitFilters == columns \in VisibleCatalogs /\ Idle

InitColumns == columns \in Catalogs /\ Idle

InitFieldType == columns = <<>> /\ Idle

UseInitialFilters ==
    /\ pc = "idle"
    /\ \E params \in AllQueries :
          LET r == useInitialFilters(columns, params)
          IN  /\ searchParams' = params
              /\ outcome' = r.outcome
              /\ initialFilters' = r.filters
    /\ pc' = "useInitialFilters"
    /\ UNCHANGED <<columns, usedColumns, operation, availableColumns, fieldVars, defaultVars>>

GetAvailableColumns ==
    /\ pc = "idle"
    /\ \E used \in UsedLists, op \in Operations :
          /\ usedColumns' = used
          /\ operation' = op
          /\ availableColumns' = getAvailableColumns(columns, used, op)
    /\ outcome' = "returned"
    /\ pc' = "getAvailableColumns"
    /\ UNCHANGED <<columns, searchParams, initialFilters, fieldVars, defaultVars>>

GetUIFieldType ==
    /\ pc = "idle"
    /\ \E c \in AnyColumns, friendly \in BOOLEAN :
          /\ theColumn' = c
          /\ friendlyName' = friendly
          /\ fieldType' = getUIFieldTypeOrName(c, friendly)
    /\ outcome' = "returned"
    /\ pc' = "getUIFieldType"
    /\ UNCHANGED <<columns, searchParams, initialFilters,
                   usedColumns, operation, availableColumns, defaultVars>>

GetDefaultValueForFieldType ==
    /\ pc = "idle"
    /\ \E c \in DefaultColumns, fields \in CustomFieldCatalogs :
          /\ theColumn' = c
          /\ customFields' = fields
          /\ defaultValue' = getDefaultValueForFieldType(c, fields)
    /\ calledAt' = now
    /\ outcome' = "returned"
    /\ pc' = "getDefaultValueForFieldType"
    /\ UNCHANGED <<columns, searchParams, initialFilters, usedColumns, operation,
                   availableColumns, friendlyName, fieldType, now,
                   previousValue, previousAt>>

\* the same call once more, on the same arguments
GetDefaultValueAgain ==
    /\ pc = "getDefaultValueForFieldType"
    /\ previousValue' = defaultValue
    /\ previousAt' = calledAt
    /\ defaultValue' = getDefaultValueForFieldType(theColumn, customFields)
    /\ calledAt' = now
    /\ pc' = "getDefaultValueForFieldTypeAgain"
    /\ UNCHANGED <<columns, searchParams, outcome, initialFilters, usedColumns,
                   operation, availableColumns, fieldVars, customFields, now>>

\* time passes, before a call or between two calls
Tick ==
    /\ pc \in {"idle", "getDefaultValueForFieldType"}
    /\ now < Len(Instants)
    /\ now' = now + 1
    /\ UNCHANGED <<columns, pc, searchParams, outcome, initialFilters, usedColumns,
                   operation, availableColumns, fieldVars, customFields,
                   defaultValue, calledAt, previousValue, previousAt>>

\* the request parser on every query of the bounded size
SpecFilters == InitFilters /\ [][UseInitialFilters]_vars

\* the availability resolver on every catalog, used list and operation
SpecColumns == InitColumns /\ [][GetAvailableColumns]_vars

\* the field type resolver on every column descriptor
SpecFieldType == InitFieldType /\ [][GetUIFieldType]_vars

\* the default value generator on every column and custom field catalog, at
\* any instant, and once more on the same arguments at the same or a later one
SpecDefaults ==
    InitFieldType /\ [][GetDefaultValueForFieldType \/ GetDefaultValueAgain \/ Tick]_vars

----------------------------------------------------------------------------
(* Vocabulary of the properties *)

Parsed == pc = "useInitialFilters"
Resolved == pc = "getAvailableColumns"

HasColon(v) == \E i \in 1..Len(v) : v[i] = Colon
FirstColon(v) == Min({i \in 1..Len(v) : v[i] = Colon})
BeforeFirstColon(v) == SubSeq(v, 1, FirstColon(v) - 1)
AfterFirstColon(v) == SubSeq(v, FirstColon(v) + 1, Len(v))
\* the text from the first colon up to the next colon, or to the end
ValuePart(v) ==
    LET rest == AfterFirstColon(v)
    IN  IF HasColon(rest) THEN BeforeFirstColon(rest) ELSE rest
Commas(v) == Cardinality({i \in 1..Len(v) : v[i] = Comma})

\* the components of a list put together again with the separator between them
RECURSIVE Join(_, _)
Join(l, sep) ==
    IF Len(l) = 0 THEN <<>>
    ELSE IF Len(l) = 1 THEN l[1]
    ELSE l[1] \o <<sep>> \o Join(Tail(l), sep)

\* the text a descriptor's value stands for
TextOf(value) ==
    IF value.kind = "array" THEN Join(value.list, Comma) ELSE value.str

InCatalog(key) == \E c \in 1..Len(columns) : columns[c].name = key
ColumnNamed(key) == columns[CHOOSE c \in 1..Len(columns) : columns[c].name = key]

\* the input pairs whose key names a catalog column, and the output position
\* the descriptor of such a pair has
Matching == {i \in 1..Len(searchParams) : InCatalog(searchParams[i].key)}
Rank(i) == Cardinality({j \in Matching : j <= i})
Emitted(i) == Rank(i) <= Len(initialFilters)
Descriptor(i) == initialFilters[Rank(i)]

\* the wire form between:from,to with from and to free of colons and commas
IsRangeWire(v) ==
    /\ Len(v) >= 3
    /\ v[1] = Between
    /\ v[2] = Colon
    /\ Commas(v) = 1
    /\ \A i \in 3..Len(v) : v[i] # Colon
CommaAt(v) == CHOOSE i \in 1..Len(v) : v[i] = Comma
FromOf(v) == SubSeq(v, 3, CommaAt(v) - 1)
ToOf(v) == SubSeq(v, CommaAt(v) + 1, Len(v))

UsedNames == {usedColumns[i].name : i \in 1..Len(usedColumns)}
Available == {availableColumns[i] : i \in 1..Len(availableColumns)}
InColumns == {columns[i] : i \in 1..Len(columns)}

----------------------------------------------------------------------------
(* Properties of useInitialFilters, under SpecFilters *)

\* C1: the parser never raises an exception, whatever the pairs and the
\* catalog are (no colon, empty value part, 'between' with no value part).
ParserNeverRaises == outcome # "TypeError"

\* C2: a raw value is split at its first colon only: the operator is the text
\* before the first colon and the value is the whole text after it, further
\* colons included.
SplitsAtFirstColonOnly ==
    Parsed =>
        \A i \in Matching :
            (HasColon(searchParams[i].value) /\ Emitted(i)) =>
                /\ Descriptor(i).operator = BeforeFirstColon(searchParams[i].value)
                /\ TextOf(Descriptor(i).value) = AfterFirstColon(searchParams[i].value)

\* C3: exactly one descriptor for each input pair whose key names a catalog
\* column and none for any other pair; the descriptor carries that key as its
\* name, a name of the catalog, and the resolved type of the matched column.
OneDescriptorPerMatchingPair ==
    Parsed =>
        /\ Len(initialFilters) = Cardinality(Matching)
        /\ \A i \in Matching :
              /\ Descriptor(i).name = searchParams[i].key
              /\ InCatalog(Descriptor(i).name)
              /\ Descriptor(i).type = getUIFieldType(ColumnNamed(searchParams[i].key))

\* the pair a descriptor was made from: its key and the operator text
FromPair(d, p) ==
    /\ d.name = p.key
    /\ d.operator = IF HasColon(p.value) THEN BeforeFirstColon(p.value) ELSE p.value

\* C4: the output keeps the input order: the descriptors of two matching
\* pairs stand in the output in the order of the pairs in the input, whatever
\* the order of the catalog and of the alphabet.
OutputKeepsInputOrder ==
    Parsed =>
        \A i, j \in Matching :
            (i < j /\ Emitted(i) /\ Emitted(j)) =>
                /\ FromPair(Descriptor(i), searchParams[i])
                /\ FromPair(Descriptor(j), searchParams[j])

\* C4 witness: two descriptors in input order, against the catalog's order
\* and against the alphabet
OrderWitness ==
    /\ Parsed
    /\ outcome = "returned"
    /\ Len(columns) = 2
    /\ columns[1].name = "cf_notes"
    /\ columns[2].name = "valuation"
    /\ Len(searchParams) = 2
    /\ searchParams[1].key = "valuation"
    /\ searchParams[2].key = "cf_notes"
    /\ Len(initialFilters) = 2
    /\ initialFilters[1].name = "valuation"
    /\ initialFilters[2].name = "cf_notes"

\* every pair of the query is a range filter of a catalog column on the wire
RangeQuery ==
    /\ searchParams # <<>>
    /\ \A i \in 1..Len(searchParams) :
          /\ InCatalog(searchParams[i].key)
          /\ IsRangeWire(searchParams[i].value)

\* C5: round trip of a range filter: the wire parameter n = between:from,to,
\* with from and to free of commas and colons, is parsed to the descriptor
\* of name n, operator between and value the list <<from, to>>.
RangeRoundTrip ==
    (Parsed /\ RangeQuery) =>
        /\ outcome = "returned"
        /\ Len(initialFilters) = Len(searchParams)
        /\ \A i \in 1..Len(searchParams) :
              /\ initialFilters[i].name = searchParams[i].key
              /\ initialFilters[i].operator = <<Between>>
              /\ initialFilters[i].value =
                    Arr(<<FromOf(searchParams[i].value), ToOf(searchParams[i].value)>>)

\* C5 witness: valuation=between:a, parsed to the pair <<"a", "">>
RangeRoundTripWitness ==
    /\ Parsed
    /\ RangeQuery
    /\ searchParams[1].value = <<Between, Colon, "a", Comma>>
    /\ initialFilters[1].value = Arr(<< <<"a">>, <<>> >>)

\* C6 as stated: every descriptor with the operator between has a value that
\* is a list of exactly two components.
RangeValueHasTwoComponents ==
    Parsed =>
        \A k \in 1..Len(initialFilters) :
            initialFilters[k].operator = <<Between>> =>
                /\ initialFilters[k].value.kind = "array"
                /\ Len(initialFilters[k].value.list) = 2

\* C6 as amended: every descriptor with the operator between has a value that
\* is a list of one component more than the value text taken by the parser
\* (from the first colon to the next colon or the end) has commas: two
\* components exactly when that text has one comma.
RangeValueOnePerPart ==
    Parsed =>
        \A i \in Matching :
            (Emitted(i) /\ Descriptor(i).operator = <<Between>>) =>
                /\ Descriptor(i).value.kind = "array"
                /\ Len(Descriptor(i).value.list) =
                      1 + Commas(ValuePart(searchParams[i].value))

\* C6 witness: a range descriptor whose list has not two components
RangeValueWitness ==
    /\ Parsed
    /\ \E k \in 1..Len(initialFilters) :
          /\ initialFilters[k].operator = <<Between>>
          /\ initialFilters[k].value.kind = "array"
          /\ Len(initialFilters[k].value.list) # 2

\* C7: a matching pair whose raw value has no colon still gets a descriptor,
\* whose operator is the whole raw string and whose value is undefined.
NoColonStillEmits ==
    Parsed =>
        \A i \in Matching :
            ~HasColon(searchParams[i].value) =>
                /\ Emitted(i)
                /\ Descriptor(i).operator = searchParams[i].value
                /\ Descriptor(i).value = Undefined

----------------------------------------------------------------------------
(* Properties of getAvailableColumns, under SpecColumns *)

\* C8: for both operations the result holds no column whose name is the name
\* of an entry of usedColumns and no column that is not visible.
NoUsedNoHidden ==
    Resolved =>
        \A c \in Available : c.visible /\ c.name \notin UsedNames

\* C8 witness: a visible column is withheld because it is used, another
\* column is returned
NoUsedNoHiddenWitness ==
    /\ Resolved
    /\ \E c \in InColumns : c.visible /\ c.name \in UsedNames
    /\ availableColumns # <<>>

\* C9: for the operation sort the result never holds a column whose resolved
\* UI field type is array.
SortHasNoArrayColumn ==
    (Resolved /\ operation = "sort") =>
        \A c \in Available : getUIFieldType(c) # "array"

\* C9 witness: a visible, unused tags column is withheld from sorting and
\* another column is returned
SortHasNoArrayColumnWitness ==
    /\ Resolved
    /\ operation = "sort"
    /\ \E c \in InColumns : c.name = "tags" /\ c.visible /\ c.name \notin UsedNames
    /\ availableColumns # <<>>

\* the columns the claim says sorting withholds
WithheldFromSort(c) ==
    \/ c.name = "tags"
    \/ c.name \in CustomNames /\ c.cfType = "MULTILINE_TEXT"

\* C10: the result is, for filter, every visible column whose name is not
\* used, and for sort those columns but the tags column and the custom field
\* columns of kind multi-line text; no other column is withheld.
AvailableExactly ==
    Resolved =>
        Available =
            {c \in InColumns :
                /\ c.visible
                /\ c.name \notin UsedNames
                /\ (operation = "sort" => ~WithheldFromSort(c))}

\* C10 witness: sorting withholds a multi-line custom field and returns the
\* other column
AvailableExactlyWitness ==
    /\ Resolved
    /\ operation = "sort"
    /\ \E c \in InColumns :
          /\ c.visible
          /\ c.name \notin UsedNames
          /\ c.name \in CustomNames
          /\ c.cfType = "MULTILINE_TEXT"
          /\ c \notin Available
    /\ availableColumns # <<>>

\* the place of a column in the catalog
PlaceOf(c) == CHOOSE i \in 1..Len(columns) : columns[i] = c

\* C11: the result keeps the catalog's order: it is a subsequence of the
\* catalog, no column twice and none out of its order, for both operations.
ResultIsSubsequence ==
    Resolved =>
        /\ \A i \in 1..Len(availableColumns) : availableColumns[i] \in InColumns
        /\ \A i, j \in 1..Len(availableColumns) :
              i < j => PlaceOf(availableColumns[i]) < PlaceOf(availableColumns[j])

\* C11 witness: two columns returned in the catalog's order, which is not the
\* alphabet's
ResultIsSubsequenceWitness ==
    /\ Resolved
    /\ Len(columns) = 2
    /\ columns[1].name = "valuation"
    /\ columns[2].name = "tags"
    /\ availableColumns = columns

\* the columns of a list
ColumnsOf(list) == {list[i] : i \in 1..Len(list)}

\* C19: sorting is never more permissive than filtering, and one more used
\* entry never adds a column to the result of either operation.
SortWithinFilter ==
    Resolved =>
        /\ ColumnsOf(getAvailableColumns(columns, usedColumns, "sort"))
              \subseteq ColumnsOf(getAvailableColumns(columns, usedColumns, "filter"))
        /\ \A n \in CatalogNames :
              ColumnsOf(getAvailableColumns(columns,
                                            Append(usedColumns, [name |-> n]),
                                            operation))
                 \subseteq Available

\* C19 witness: sorting returns a column, filtering returns more, and a
\* further used entry takes a column away
SortWithinFilterWitness ==
    /\ Resolved
    /\ operation = "sort"
    /\ availableColumns # <<>>
    /\ ColumnsOf(getAvailableColumns(columns, usedColumns, "filter")) # Available
    /\ \E n \in CatalogNames :
          ColumnsOf(getAvailableColumns(columns,
                                        Append(usedColumns, [name |-> n]),
                                        operation)) # Available

\* the value part of a raw value: the text after its first colon
ValuePassedThrough(d, v) ==
    IF BeforeFirstColon(v) = <<Between>>
    THEN /\ d.value.kind = "array"
         /\ Len(d.value.list) = 1 + Commas(AfterFirstColon(v))
         /\ \A k \in 1..Len(d.value.list) : Commas(d.value.list[k]) = 0
         /\ Join(d.value.list, Comma) = AfterFirstColon(v)
    ELSE d.value = Str(AfterFirstColon(v))

\* C18: value components pass through unchanged: under between a value part
\* of k comma-separated components gives the list of those k components in
\* order, under any other operator the value part stays one scalar string,
\* commas included.
ValuesPassThrough ==
    Parsed =>
        \A i \in Matching :
            (HasColon(searchParams[i].value) /\ Emitted(i)) =>
                ValuePassedThrough(Descriptor(i), searchParams[i].value)

----------------------------------------------------------------------------
(* Properties of getUIFieldType, under SpecFieldType *)

Typed == pc = "getUIFieldType"

\* the fixed type of each built-in column name
BuiltInType ==
    [n \in BuiltInNames |->
        CASE n \in {"id", "name"} -> "string"
          [] n \in {"custody", "status", "category", "location", "kit"} -> "enum"
          [] n = "description" -> "text"
          [] n = "valuation" -> "number"
          [] n = "availableToBook" -> "boolean"
          [] n = "createdAt" -> "date"
          [] n = "tags" -> "array"]

\* C12: a built-in column resolves to the fixed type of its name, whatever
\* its visible and cfType are, on every call.
BuiltInTypeByName ==
    (Typed /\ ~friendlyName /\ theColumn.name \in BuiltInNames) =>
        fieldType = BuiltInType[theColumn.name]

\* C12 witness: a hidden description column carrying a cfType resolves to text
BuiltInTypeByNameWitness ==
    /\ Typed
    /\ ~friendlyName
    /\ theColumn = [name |-> "description", visible |-> FALSE, cfType |-> "BOOLEAN"]
    /\ fieldType = "text"

\* the type of each kind of custom field, string for any other or absent kind
CustomType(kind) ==
    CASE kind = "TEXT" -> "string"
      [] kind = "MULTILINE_TEXT" -> "text"
      [] kind = "BOOLEAN" -> "boolean"
      [] kind = "DATE" -> "date"
      [] kind = "OPTION" -> "enum"
      [] OTHER -> "string"

\* C13: a custom field column resolves by its kind, to string for any other
\* or absent kind; every column descriptor whatsoever resolves to one member
\* of the closed set of UI field types (to its label when the label is asked).
CustomTypeByKind ==
    Typed =>
        /\ ~friendlyName => fieldType \in UIFieldTypes
        /\ friendlyName => \E t \in UIFieldTypes : fieldType = uiFieldTypeNames[t]
        /\ (~friendlyName /\ theColumn.name \in CustomNames) =>
              fieldType = CustomType(theColumn.cfType)
        /\ (~friendlyName /\ theColumn.name \in OtherNames) => fieldType = "string"

\* C13 witness: a custom field of single-select kind resolves to enum
CustomTypeByKindWitness ==
    /\ Typed
    /\ ~friendlyName
    /\ theColumn.name = "cf_notes"
    /\ theColumn.cfType = "OPTION"
    /\ fieldType = "enum"

----------------------------------------------------------------------------
(* Properties of getDefaultValueForFieldType, under SpecDefaults *)

Defaulted ==
    pc \in {"getDefaultValueForFieldType", "getDefaultValueForFieldTypeAgain"}
DefaultedAgain == pc = "getDefaultValueForFieldTypeAgain"

\* the date string of the day of the call
DateOfCall == Str(<<Instants[calledAt].date>>)
EmptyString == Str(<<>>)

\* C14: a built-in column gets the default of its resolved type: true for
\* boolean, the current date string for date, 0 for number, the empty string
\* for every other type, whatever the custom field catalog is.
BuiltInDefaultByType ==
    (Defaulted /\ theColumn.name \in BuiltInNames) =>
        defaultValue =
            CASE BuiltInType[theColumn.name] = "boolean" -> JsTrue
              [] BuiltInType[theColumn.name] = "date" -> DateOfCall
              [] BuiltInType[theColumn.name] = "number" -> Zero
              [] OTHER -> EmptyString

\* C14 witness: the valuation column gets 0 under a catalog that is not empty
BuiltInDefaultByTypeWitness ==
    /\ Defaulted
    /\ theColumn.name = "valuation"
    /\ ~customFields.isNull
    /\ customFields.list # <<>>
    /\ defaultValue = Zero

\* the definitions of the catalog whose prefixed name is the column's
DefinitionsOfColumn ==
    IF customFields.isNull THEN {}
    ELSE {customFields.list[i] : i \in
            {j \in 1..Len(customFields.list) :
                cfColumnName(customFields.list[j].name) = theColumn.name}}
DefinitionOfColumn == CHOOSE d \in DefinitionsOfColumn : TRUE

\* the first option of the column's definition; the empty string when there
\* is no catalog, no definition of that name, or no option
FirstOptionOrEmpty ==
    IF DefinitionsOfColumn = {} THEN EmptyString
    ELSE IF DefinitionOfColumn.options.isNull THEN EmptyString
    ELSE IF DefinitionOfColumn.options.list = <<>> THEN EmptyString
    ELSE Str(DefinitionOfColumn.options.list[1])

\* C15: an option-typed custom field column gets the first option of the
\* definition of its name, and the empty string when the catalog is null or
\* empty, holds no such definition, or the definition has no options.
OptionDefaultIsFirstOption ==
    (Defaulted /\ theColumn.name \in CustomNames /\ theColumn.cfType = "OPTION") =>
        defaultValue = FirstOptionOrEmpty

\* C15 witness: the definition stands second in the catalog and its first
\* option of two is returned
OptionDefaultWitness ==
    /\ Defaulted
    /\ theColumn.name = "cf_notes"
    /\ theColumn.cfType = "OPTION"
    /\ ~customFields.isNull
    /\ Len(customFields.list) = 2
    /\ customFields.list[2].name = "notes"
    /\ customFields.list[2].options.list = << <<"A">>, <<"B">> >>
    /\ defaultValue = Str(<<"A">>)

\* the default of a kind of custom field
DefaultOfKind(kind) ==
    CASE kind = "DATE" -> DateOfCall
      [] kind = "BOOLEAN" -> JsTrue
      [] kind = "OPTION" -> FirstOptionOrEmpty
      [] OTHER -> EmptyString

\* C16 as stated: the default of a custom field column is chosen by the kind
\* of the definition found in the catalog by name, the empty string when
\* there is none, whatever kind the column descriptor carries.
DefaultByDefinitionKind ==
    (Defaulted /\ theColumn.name \in CustomNames) =>
        defaultValue =
            IF DefinitionsOfColumn = {} THEN EmptyString
            ELSE DefaultOfKind(DefinitionOfColumn.type)

\* C16 as amended: the default of a custom field column is chosen by the kind
\* the column descriptor carries; the definition found by name gives only the
\* first option.
DefaultByColumnKind ==
    (Defaulted /\ theColumn.name \in CustomNames) =>
        defaultValue = DefaultOfKind(theColumn.cfType)

\* C16 witness: a date column whose definition is of kind boolean gets the date
DefaultByColumnKindWitness ==
    /\ Defaulted
    /\ theColumn.name = "cf_notes"
    /\ theColumn.cfType = "DATE"
    /\ DefinitionsOfColumn # {}
    /\ DefinitionOfColumn.type = "BOOLEAN"
    /\ defaultValue = DateOfCall

\* C17 as stated: two calls on equal arguments return equal results,
\* whenever they are made.
SameArgumentsSameDefault ==
    DefaultedAgain => defaultValue = previousValue

\* C17 as amended: two calls on equal arguments made on the same date (of
\* the clock's UTC timestamp) return equal results.
SameArgumentsSameDateSameDefault ==
    (DefaultedAgain /\ Instants[calledAt].date = Instants[previousAt].date) =>
        defaultValue = previousValue

\* C17 witness: a date column asked twice, at two times of the same day
SameDateWitness ==
    /\ DefaultedAgain
    /\ theColumn.name = "createdAt"
    /\ calledAt # previousAt
    /\ Instants[calledAt].date = Instants[previousAt].date
    /\ defaultValue = previousValue
    /\ defaultValue = DateOfCall

=============================================================================
